---- MODULE Spec2Model ----
(***************************************************************************)
(* Session bookkeeping of the Afridi.ai chat backend (backend/main.py):    *)
(* the two module-level dictionaries `store` and `session_metadata`, the   *)
(* chat turn around the external model call, and the session endpoints.    *)
(*                                                                         *)
(* Every endpoint is an `async def` without an await, and chat() calls the *)
(* synchronous conversation.invoke(): a handler keeps the event loop from  *)
(* its first line to its return.  The only handler with an interior state  *)
(* is the chat turn, which waits for the model collaborator while it holds *)
(* the loop (`inflight`).                                                  *)
(*                                                                         *)
(* Text is a string; Len, \o and SubSeq act on strings as on sequences.    *)
(***************************************************************************)
EXTENDS Integers, Sequences, FiniteSets, TLC

\* ------------------------------------------------------------------ bounds
\* exchanges (user message + reply) kept in the store, over all sessions
MaxTurns == 2
\* last value of the clock
MaxClock == 1

\* turns per session in the stores the search is checked on
MaxSearchTurns == 11
\* turns of the second session in those stores
MaxOtherTurns == 1

\* ------------------------------------------------------- program constants
\* user_input[:50]
TitleLimit == 50
\* results[:20]
SearchLimit == 20

None == "None"

\* c * n
RECURSIVE Rep(_, _)
Rep(c, n) == IF n = 0 THEN "" ELSE c \o Rep(c, n - 1)

NewChat == "New Chat"
Ellipsis == "..."
SessionNotFound == "Session not found"
ChatFailed == "500: Chat processing failed"
ModelName == "gemini-1.5-flash"
DevelopmentMode == "development-mode"

\* ------------------------------------------------------------------ inputs
Sessions == {"s1", "s2"}
Exactly50 == Rep("a", TitleLimit)
Over50 == Rep("a", TitleLimit) \o "b"
Inputs == {Exactly50, Over50}
Titles == {NewChat, "T"}
Replies == {"ok"}
Formats == {"json", "txt"}
Queries == {"foo", "OO", "OK"}
\* session_id: Optional[str] = None
SearchScopes == Sessions \cup {None}
\* message texts of the stores the search is checked on
SearchTexts == {"foo bar foo", "baz", "FOOO"}

VARIABLES
    store,             \* dict: session id -> messages of its ChatMessageHistory
    session_metadata,  \* dict: session id -> metadata record
    configured,        \* conversation is not None
    now,               \* datetime.now()
    inflight,          \* <<>>, or <<the chat turn waiting for the model>>
    last_call,         \* the request most recently taken up (Call)
    response,          \* the ChatResponse most recently returned
    turns,             \* per session id: the exchanges completed since it was created
    title_set,         \* per session id: a turn or a rename has set its title
    deleted,           \* per session id: <<>>, or <<b>> once delete has removed it
                       \* (b: it held messages) and it has not been created again
    was_reset          \* the same for reset

state == <<store, session_metadata, configured, now, inflight>>
observed == <<turns, title_set, deleted, was_reset>>
vars == <<store, session_metadata, configured, now, inflight, last_call, response,
          turns, title_set, deleted, was_reset>>

\* ---------------------------------------------------------- Python dict
\* A dict is the sequence of its items in insertion order.
DictKeys(d) == {d[i].k : i \in DOMAIN d}
DictHas(d, key) == key \in DictKeys(d)
DictIdx(d, key) == CHOOSE i \in DOMAIN d : d[i].k = key
DictGet(d, key) == d[DictIdx(d, key)].v
DictSet(d, key, val) ==
    IF DictHas(d, key)
    THEN [d EXCEPT ![DictIdx(d, key)] = [k |-> key, v |-> val]]
    ELSE Append(d, [k |-> key, v |-> val])
DictDel(d, key) == SelectSeq(d, LAMBDA e : e.k # key)

\* ------------------------------------------------------------- messages
HumanMessage(text) == [sender |-> "user", content |-> text]
AIMessage(text) == [sender |-> "assistant", content |-> text]

\* datetime.now() read again later in the same handler
Later(t) == {t2 \in t..MaxClock : t2 <= t + 1}

\* ----------------------------------------------------------- get_history
NewMetadata(t1, t2) ==
    [created_at |-> t1, updated_at |-> t2, title |-> NewChat,
     message_count |-> 0, is_starred |-> FALSE, is_archived |-> FALSE,
     tags |-> <<>>]

\* the older get_history of chatbot.py: no metadata entry
GetHistoryMetaMissing(s, t1, t2) == session_metadata

\* a get_history that always starts a new history
GetHistoryStoreFresh(s) == DictSet(store, s, <<>>)
\* store / session_metadata after get_history(s)
GetHistoryStore(s) ==
    IF DictHas(store, s) THEN store ELSE DictSet(store, s, <<>>)
GetHistoryMeta(s, t1, t2) ==
    IF DictHas(store, s) THEN session_metadata
    ELSE DictSet(session_metadata, s, NewMetadata(t1, t2))

\* ------------------------------------------------------------ responses
\* ChatResponse(success, data, error, message)
Success(d) == [success |-> TRUE, data |-> d, error |-> None, message |-> None]
SuccessMessage(m) == [success |-> TRUE, data |-> None, error |-> None, message |-> m]
Failure(e) == [success |-> FALSE, data |-> None, error |-> e, message |-> None]

\* a request: the operation, its session id, whether the id was in the stores
\* when it arrived, what `deleted` and `was_reset` held for the id then, and
\* its text argument (the message, the format or the query)
Call(o, s, kn) ==
    [op |-> o, sid |-> s, known |-> kn,
     after_delete |-> IF s \in Sessions THEN deleted[s] ELSE <<>>,
     after_reset |-> IF s \in Sessions THEN was_reset[s] ELSE <<>>,
     arg |-> None]
CallWith(o, s, kn, a) == [Call(o, s, kn) EXCEPT !.arg = a]
NoCall ==
    [op |-> "none", sid |-> "none", known |-> FALSE, after_delete |-> <<>>,
     after_reset |-> <<>>, arg |-> None]
Idle == inflight = <<>>

\* ----------------------------------------------------------------- chat
Min(a, b) == IF a < b THEN a ELSE b
\* user_input[:n]
Take(text, n) == SubSeq(text, 1, Min(n, Len(text)))

AutoTitleNoEllipsis(user_input) == Take(user_input, TitleLimit)

\* main.py:121
AutoTitle(user_input) ==
    Take(user_input, TitleLimit)
        \o (IF Len(user_input) > TitleLimit THEN Ellipsis ELSE "")

UpdateMetadataCountsOne(md, user_input, t) ==
    [md EXCEPT !.updated_at = t,
               !.message_count = @ + 1,
               !.title = IF @ = NewChat THEN AutoTitle(user_input) ELSE @]

\* main.py:116-122
UpdateMetadata(md, user_input, t) ==
    [md EXCEPT !.updated_at = t,
               !.message_count = @ + 2,
               !.title = IF @ = NewChat THEN AutoTitle(user_input) ELSE @]

AddMessagesUserOnly(messages, user_input, reply) ==
    messages \o <<HumanMessage(user_input)>>
AddMessagesReplyFirst(messages, user_input, reply) ==
    messages \o <<AIMessage(reply), HumanMessage(user_input)>>

\* RunnableWithMessageHistory._exit_history: hist.add_messages(input + output)
AddMessagesBothHuman(messages, user_input, reply) ==
    messages \o <<HumanMessage(user_input), HumanMessage(reply)>>
AddMessages(messages, user_input, reply) ==
    messages \o <<HumanMessage(user_input), AIMessage(reply)>>

RECURSIVE TotalMessages(_)
TotalMessages(d) ==
    IF d = <<>> THEN 0 ELSE Len(Head(d).v) + TotalMessages(Tail(d))

FallbackMessageNoEcho(user_input) ==
    "Hello! I'm Afridi.ai. I'm currently in development mode. "
        \o "Please configure your Google AI API key to enable full functionality."
FallbackMessage(user_input) ==
    "Hello! I'm Afridi.ai. You said: '" \o user_input
        \o "'. I'm currently in development mode. "
        \o "Please configure your Google AI API key to enable full functionality."

\* a fallback that resolves the session the way the model-backed turn does
chat_fallback_resolving(s, u) ==
    /\ Idle
    /\ ~configured
    /\ store' = GetHistoryStore(s)
    /\ session_metadata' = GetHistoryMeta(s, now, now)
    /\ last_call' = CallWith("chat", s, DictHas(store, s), u)
    /\ response' = Success([message |-> FallbackMessage(u), session_id |-> s,
                            model |-> DevelopmentMode])
    /\ UNCHANGED <<configured, now, inflight, observed>>

\* chat() with conversation = None: the reply of lines 88-96, nothing stored
chat_fallback(s, u) ==
    /\ Idle
    /\ ~configured
    /\ last_call' = CallWith("chat", s, DictHas(store, s), u)
    /\ response' = Success([message |-> FallbackMessage(u), session_id |-> s,
                            model |-> DevelopmentMode])
    /\ UNCHANGED <<store, session_metadata, configured, now, inflight, observed>>

\* chat() up to the model call: conversation.invoke() resolves the session's
\* history with get_history(session_id) before the chain runs
chat_invoke(s, u) ==
    /\ Idle
    /\ configured
    /\ TotalMessages(store) < 2 * MaxTurns
    /\ \E t2 \in Later(now) :
        /\ store' = GetHistoryStore(s)
        /\ session_metadata' = GetHistoryMeta(s, now, t2)
        /\ now' = IF DictHas(store, s) THEN now ELSE t2
    /\ inflight' = <<[sid |-> s, input |-> u,
                      store0 |-> store, metadata0 |-> session_metadata]>>
    /\ last_call' = CallWith("chat", s, DictHas(store, s), u)
    /\ deleted' = [deleted EXCEPT ![s] = <<>>]
    /\ was_reset' = [was_reset EXCEPT ![s] = <<>>]
    /\ UNCHANGED <<configured, response, turns, title_set>>

StoreAfterTurn(s, u, reply) ==
    IF DictHas(store, s)
    THEN DictSet(store, s, AddMessages(DictGet(store, s), u, reply))
    ELSE store

MetadataAfterTurn(s, u, t) ==
    IF DictHas(session_metadata, s)
    THEN DictSet(session_metadata, s,
                 UpdateMetadata(DictGet(session_metadata, s), u, t))
    ELSE session_metadata

\* the model call returns: the exchange is added to the history, lines 111-134
chat_return(reply) ==
    /\ ~Idle
    /\ LET s == inflight[1].sid
           u == inflight[1].input
       IN /\ store' = StoreAfterTurn(s, u, reply)
          /\ session_metadata' = MetadataAfterTurn(s, u, now)
          /\ response' = Success([message |-> reply, session_id |-> s,
                                  model |-> ModelName])
          /\ turns' = [turns EXCEPT ![s] = Append(@, [input |-> u, reply |-> reply])]
          /\ title_set' = [title_set EXCEPT ![s] = TRUE]
    /\ inflight' = <<>>
    /\ UNCHANGED <<configured, now, last_call, deleted, was_reset>>

\* the model call raises: lines 135-137, then chat_endpoint's handler 210-215
chat_raise ==
    /\ ~Idle
    /\ response' = Failure(ChatFailed)
    /\ inflight' = <<>>
    /\ UNCHANGED <<store, session_metadata, configured, now, last_call, observed>>

\* time passes, also while the model call is awaited
Tick ==
    /\ now < MaxClock
    /\ now' = now + 1
    /\ UNCHANGED <<store, session_metadata, configured, inflight, last_call, response,
                   observed>>

\* ------------------------------------------------------------ endpoints
MessageViews(s, messages) ==
    [i \in 1..Len(messages) |->
        [id |-> <<s, i - 1>>, content |-> messages[i].content,
         sender |-> messages[i].sender]]

get_history_endpoint(s) ==
    /\ Idle
    /\ \E t2 \in Later(now) :
        /\ store' = GetHistoryStore(s)
        /\ session_metadata' = GetHistoryMeta(s, now, t2)
        /\ now' = IF DictHas(store, s) THEN now ELSE t2
    /\ response' = Success(MessageViews(s, DictGet(store', s)))
    /\ last_call' = Call("get_history", s, DictHas(store, s))
    /\ deleted' = [deleted EXCEPT ![s] = <<>>]
    /\ was_reset' = [was_reset EXCEPT ![s] = <<>>]
    /\ UNCHANGED <<configured, inflight, turns, title_set>>

ResetStoreClears(s) == IF DictHas(store, s) THEN DictSet(store, s, <<>>) ELSE store
ResetStore(s) == IF DictHas(store, s) THEN DictDel(store, s) ELSE store
ResetMetadataKeeps(s) == session_metadata
ResetMetadata(s) ==
    IF DictHas(session_metadata, s) THEN DictDel(session_metadata, s)
    ELSE session_metadata

reset_session_endpoint(s) ==
    /\ Idle
    /\ store' = ResetStore(s)
    /\ session_metadata' = ResetMetadata(s)
    /\ response' = SuccessMessage("Session reset successfully")
    /\ last_call' = Call("reset", s, DictHas(store, s))
    /\ turns' = [turns EXCEPT ![s] = <<>>]
    /\ title_set' = [title_set EXCEPT ![s] = FALSE]
    /\ was_reset' = IF DictHas(store, s)
                    THEN [was_reset EXCEPT ![s] = <<Len(DictGet(store, s)) > 0>>]
                    ELSE was_reset
    /\ UNCHANGED <<configured, now, inflight, deleted>>

DeleteStoreKeeps(s) == store
DeleteStore(s) == IF DictHas(store, s) THEN DictDel(store, s) ELSE store
DeleteMetadataAll(s) ==
    IF DictHas(session_metadata, s) THEN <<>> ELSE session_metadata
DeleteMetadata(s) ==
    IF DictHas(session_metadata, s) THEN DictDel(session_metadata, s)
    ELSE session_metadata
Deleted(s) == DictHas(store, s) \/ DictHas(session_metadata, s)
DeleteResponse(s) ==
    IF Deleted(s) THEN SuccessMessage("Session deleted successfully")
    ELSE Failure(SessionNotFound)

delete_session_endpoint(s) ==
    /\ Idle
    /\ store' = DeleteStore(s)
    /\ session_metadata' = DeleteMetadata(s)
    /\ response' = DeleteResponse(s)
    /\ last_call' = Call("delete", s, Deleted(s))
    /\ turns' = [turns EXCEPT ![s] = <<>>]
    /\ title_set' = [title_set EXCEPT ![s] = FALSE]
    /\ deleted' = IF DictHas(store, s)
                  THEN [deleted EXCEPT ![s] = <<Len(DictGet(store, s)) > 0>>]
                  ELSE deleted
    /\ UNCHANGED <<configured, now, inflight, was_reset>>

TitleMetadataCreates(s, title, t) ==
    DictSet(session_metadata, s,
            [(IF DictHas(session_metadata, s) THEN DictGet(session_metadata, s)
              ELSE NewMetadata(t, t)) EXCEPT !.title = title, !.updated_at = t])
TitleMetadata(s, title, t) ==
    IF DictHas(session_metadata, s)
    THEN DictSet(session_metadata, s,
                 [DictGet(session_metadata, s) EXCEPT !.title = title,
                                                      !.updated_at = t])
    ELSE session_metadata
TitleResponse(s) ==
    IF DictHas(session_metadata, s) THEN SuccessMessage("Title updated successfully")
    ELSE Failure(SessionNotFound)

update_session_title(s, title) ==
    /\ Idle
    /\ session_metadata' = TitleMetadata(s, title, now)
    /\ response' = TitleResponse(s)
    /\ last_call' = Call("title", s, DictHas(session_metadata, s))
    /\ title_set' = [title_set EXCEPT ![s] = @ \/ DictHas(session_metadata, s)]
    /\ UNCHANGED <<store, configured, now, inflight, turns, deleted, was_reset>>

\* metadata.get('title', 'Untitled'), metadata.get('created_at', 'Unknown')
Untitled == "Untitled"
Unknown == "Unknown"
IsoFormat(t) == ToString(t)
ExportMetadata(s) ==
    IF DictHas(session_metadata, s) THEN <<DictGet(session_metadata, s)>> ELSE <<>>
ExportTitle(s) ==
    IF DictHas(session_metadata, s) THEN DictGet(session_metadata, s).title
    ELSE Untitled
ExportCreated(s) ==
    IF DictHas(session_metadata, s)
    THEN IsoFormat(DictGet(session_metadata, s).created_at)
    ELSE Unknown

\* lines 398-400: one "sender: content" paragraph per message
RECURSIVE TextLines(_)
TextLines(views) ==
    IF views = <<>> THEN ""
    ELSE (IF Head(views).sender = "user" THEN "You" ELSE "Afridi.ai")
            \o ": " \o Head(views).content \o "\n\n"
            \o TextLines(Tail(views))

\* the transcript without its "Title:" line
TextContentNoTitle(s) ==
    "Afridi.ai Conversation Export\n"
        \o "Session ID: " \o s \o "\n"
        \o "Created: " \o ExportCreated(s) \o "\n\n"
        \o TextLines(MessageViews(s, DictGet(store, s)))
\* lines 393-400
TextContent(s) ==
    "Afridi.ai Conversation Export\n"
        \o "Session ID: " \o s \o "\n"
        \o "Title: " \o ExportTitle(s) \o "\n"
        \o "Created: " \o ExportCreated(s) \o "\n\n"
        \o TextLines(MessageViews(s, DictGet(store, s)))

ExportResponse(s, format) ==
    IF ~DictHas(store, s) THEN Failure(SessionNotFound)
    ELSE IF format = "txt"
    THEN Success([content |-> TextContent(s), format |-> "txt"])
    ELSE Success([session_id |-> s, metadata |-> ExportMetadata(s),
                  messages |-> MessageViews(s, DictGet(store, s))])

export_session(s, format) ==
    /\ Idle
    /\ response' = ExportResponse(s, format)
    /\ last_call' = CallWith("export", s, DictHas(store, s), format)
    /\ UNCHANGED <<state, observed>>

Summary(item) ==
    [id |-> item.k, title |-> item.v.title, created_at |-> item.v.created_at,
     updated_at |-> item.v.updated_at, message_count |-> item.v.message_count,
     is_starred |-> item.v.is_starred, is_archived |-> item.v.is_archived,
     tags |-> item.v.tags]

\* list.sort(key=updated_at, reverse=True): stable, equal keys keep their order
InsertSessionAscending(sorted, x) ==
    LET n == Cardinality({i \in DOMAIN sorted : sorted[i].updated_at <= x.updated_at})
    IN SubSeq(sorted, 1, n) \o <<x>> \o SubSeq(sorted, n + 1, Len(sorted))
InsertSession(sorted, x) ==
    LET n == Cardinality({i \in DOMAIN sorted : sorted[i].updated_at >= x.updated_at})
    IN SubSeq(sorted, 1, n) \o <<x>> \o SubSeq(sorted, n + 1, Len(sorted))
RECURSIVE SortSessions(_)
SortSessions(sessions) ==
    IF sessions = <<>> THEN <<>>
    ELSE InsertSession(SortSessions(SubSeq(sessions, 1, Len(sessions) - 1)),
                       sessions[Len(sessions)])

\* data of get_sessions_endpoint, lines 278-292
ListSessions(metadata) ==
    SortSessions([i \in DOMAIN metadata |-> Summary(metadata[i])])

get_sessions_endpoint ==
    /\ Idle
    /\ response' = Success(ListSessions(session_metadata))
    /\ last_call' = Call("list", "none", FALSE)
    /\ UNCHANGED <<state, observed>>

\* --------------------------------------------------------------- search
UpperCase == "ABCDEFGHIJKLMNOPQRSTUVWXYZ"
LowerCase == "abcdefghijklmnopqrstuvwxyz"
LowerChar(c) ==
    IF \E i \in 1..Len(UpperCase) : SubSeq(UpperCase, i, i) = c
    THEN LET i == CHOOSE j \in 1..Len(UpperCase) : SubSeq(UpperCase, j, j) = c
         IN SubSeq(LowerCase, i, i)
    ELSE c
\* str.lower()
RECURSIVE Lower(_)
Lower(text) ==
    IF text = "" THEN ""
    ELSE LowerChar(SubSeq(text, 1, 1)) \o Lower(SubSeq(text, 2, Len(text)))

\* sub in text
Contains(text, sub) ==
    \E i \in 1..(Len(text) - Len(sub) + 1) : SubSeq(text, i, i + Len(sub) - 1) = sub

\* str.count(sub): scans from the left and steps over each occurrence found
RECURSIVE CountFrom(_, _, _)
CountFrom(text, sub, i) ==
    IF i + Len(sub) - 1 > Len(text) THEN 0
    ELSE IF SubSeq(text, i, i + Len(sub) - 1) = sub
         THEN 1 + CountFrom(text, sub, i + Len(sub))
         ELSE CountFrom(text, sub, i + 1)
Count(text, sub) ==
    IF sub = "" THEN Len(text) + 1 ELSE CountFrom(text, sub, 1)

\* the message texts that occur in a store
Texts == Inputs \cup Replies \cup SearchTexts
\* query.lower() in msg.content.lower(), computed once per text and query
Matching == [content \in Texts, query \in Queries |->
                Contains(Lower(content), Lower(query))]
\* msg.content.lower().count(query.lower()), computed once per text and query
RelevanceScore == [content \in Texts, query \in Queries |->
                      Count(Lower(content), Lower(query))]

SearchTitle(sid) ==
    IF DictHas(session_metadata, sid) THEN DictGet(session_metadata, sid).title
    ELSE Untitled

\* lines 432-444 for one session
RECURSIVE MatchesIn(_, _, _)
MatchesIn(sid, views, query) ==
    IF views = <<>> THEN <<>>
    ELSE (IF Matching[Head(views).content, query]
          THEN <<[message |-> Head(views), session_id |-> sid,
                  session_title |-> SearchTitle(sid),
                  relevance_score |-> RelevanceScore[Head(views).content, query]]>>
          ELSE <<>>)
         \o MatchesIn(sid, Tail(views), query)

\* lines 427-444
RECURSIVE SearchSessions(_, _)
SearchSessions(sids, query) ==
    IF sids = <<>> THEN <<>>
    ELSE (IF DictHas(store, Head(sids))
          THEN MatchesIn(Head(sids),
                         MessageViews(Head(sids), DictGet(store, Head(sids))), query)
          ELSE <<>>)
         \o SearchSessions(Tail(sids), query)

\* [session_id] if session_id else store.keys()
SessionsToSearch(scope) ==
    IF scope # None /\ scope # "" THEN <<scope>>
    ELSE [i \in DOMAIN store |-> store[i].k]

\* results.sort(key=relevance_score, reverse=True): stable
InsertResult(sorted, x) ==
    LET n == Cardinality({i \in DOMAIN sorted :
                            sorted[i].relevance_score >= x.relevance_score})
    IN SubSeq(sorted, 1, n) \o <<x>> \o SubSeq(sorted, n + 1, Len(sorted))
RECURSIVE SortResults(_)
SortResults(results) ==
    IF results = <<>> THEN <<>>
    ELSE InsertResult(SortResults(SubSeq(results, 1, Len(results) - 1)),
                      results[Len(results)])

\* the cut taken before the sort
SearchDataCutFirst(query, scope) ==
    LET found == SearchSessions(SessionsToSearch(scope), query)
    IN SortResults(SubSeq(found, 1, Min(SearchLimit, Len(found))))
\* data of search_messages, lines 424-451
SearchData(query, scope) ==
    LET sorted == SortResults(SearchSessions(SessionsToSearch(scope), query))
    IN SubSeq(sorted, 1, Min(SearchLimit, Len(sorted)))

\* a search that resolves the named session with get_history
search_messages_resolving(query, scope) ==
    /\ Idle
    /\ store' = IF scope \in Sessions THEN GetHistoryStore(scope) ELSE store
    /\ session_metadata' = IF scope \in Sessions THEN GetHistoryMeta(scope, now, now)
                           ELSE session_metadata
    /\ response' = Success(SearchData(query, scope))
    /\ last_call' = CallWith("search", scope, DictHas(store, scope), query)
    /\ UNCHANGED <<configured, now, inflight, observed>>

search_messages(query, scope) ==
    /\ Idle
    /\ response' = Success(SearchData(query, scope))
    /\ last_call' = CallWith("search", scope, DictHas(store, scope), query)
    /\ UNCHANGED <<state, observed>>

Init ==
    /\ store = <<>>
    /\ session_metadata = <<>>
    /\ configured \in BOOLEAN
    /\ now = 0
    /\ inflight = <<>>
    /\ last_call = NoCall
    /\ response = Failure(None)
    /\ turns = [s \in Sessions |-> <<>>]
    /\ title_set = [s \in Sessions |-> FALSE]
    /\ deleted = [s \in Sessions |-> <<>>]
    /\ was_reset = [s \in Sessions |-> <<>>]

Next ==
    \/ \E s \in Sessions, u \in Inputs : chat_fallback(s, u)
    \/ \E s \in Sessions, u \in Inputs : chat_invoke(s, u)
    \/ \E reply \in Replies : chat_return(reply)
    \/ chat_raise
    \/ Tick
    \/ \E s \in Sessions : get_history_endpoint(s)
    \/ \E s \in Sessions : reset_session_endpoint(s)
    \/ \E s \in Sessions : delete_session_endpoint(s)
    \/ \E s \in Sessions, title \in Titles : update_session_title(s, title)
    \/ \E s \in Sessions, format \in Formats : export_session(s, format)
    \/ get_sessions_endpoint
    \/ \E query \in Queries, scope \in SearchScopes : search_messages(query, scope)

Spec == Init /\ [][Next]_vars

\* ---------------------------------------------- the search on larger stores
\* n exchanges (user text, reply text)
RECURSIVE Repeated(_, _, _)
Repeated(user_input, reply, n) ==
    IF n = 0 THEN <<>>
    ELSE AddMessages(Repeated(user_input, reply, n - 1), user_input, reply)

\* the stores after n1 such turns on s1 and n2 on s2
InitSearch ==
    \E u1 \in SearchTexts, r1 \in SearchTexts, n1 \in 0..MaxSearchTurns,
       u2 \in SearchTexts, r2 \in SearchTexts, n2 \in 0..MaxOtherTurns :
        /\ store = <<[k |-> "s1", v |-> Repeated(u1, r1, n1)],
                     [k |-> "s2", v |-> Repeated(u2, r2, n2)]>>
        /\ session_metadata =
              <<[k |-> "s1", v |-> [NewMetadata(0, 0) EXCEPT
                                      !.message_count = 2 * n1,
                                      !.title = IF n1 = 0 THEN NewChat ELSE AutoTitle(u1)]],
                [k |-> "s2", v |-> [NewMetadata(0, 0) EXCEPT
                                      !.message_count = 2 * n2,
                                      !.title = IF n2 = 0 THEN NewChat ELSE AutoTitle(u2)]]>>
        /\ turns = [s \in Sessions |->
                      IF s = "s1" THEN [i \in 1..n1 |-> [input |-> u1, reply |-> r1]]
                      ELSE [i \in 1..n2 |-> [input |-> u2, reply |-> r2]]]
        /\ title_set = [s \in Sessions |-> IF s = "s1" THEN n1 > 0 ELSE n2 > 0]
        /\ configured = TRUE
        /\ now = 0
        /\ inflight = <<>>
        /\ last_call = NoCall
        /\ response = Failure(None)
        /\ deleted = [s \in Sessions |-> <<>>]
        /\ was_reset = [s \in Sessions |-> <<>>]

NextSearch ==
    \E query \in Queries, scope \in SearchScopes : search_messages(query, scope)

SpecSearch == InitSearch /\ [][NextSearch]_vars

\* ================================================================ claims
History(s) == DictGet(store, s)
Metadata(s) == DictGet(session_metadata, s)
Live(s) == DictHas(store, s) /\ DictHas(session_metadata, s)
Listed == {ListSessions(session_metadata)[i].id :
              i \in DOMAIN ListSessions(session_metadata)}
ChatReturned ==
    /\ Idle
    /\ last_call.op = "chat"
    /\ response.success

\* C1: when the model collaborator raises during a chat turn, the turn is
\* reported as a failure and both stores are exactly as they were when the
\* turn was called (no message, no metadata change, no session created).
C1_FailedTurnChangesNothing ==
    [][chat_raise =>
        /\ ~response'.success
        /\ store' = inflight[1].store0
        /\ session_metadata' = inflight[1].metadata0]_vars

\* C2: in every reachable state, every session's message_count equals the
\* number of messages in its history.
C2_CountEqualsHistoryLength ==
    \A s \in DictKeys(store) \cap DictKeys(session_metadata) :
        Metadata(s).message_count = Len(History(s))

\* a turn has completed on an id that was deleted when it held messages and
\* created again: the count is that of the new history
C2_Witness ==
    \E s \in Sessions :
        /\ ChatReturned
        /\ last_call.sid = s
        /\ last_call.after_delete = <<TRUE>>
        /\ Live(s)
        /\ Metadata(s).message_count = 2
        /\ Len(History(s)) = 2

\* C3: in every reachable state a session id is a key of the history store
\* if and only if it is a key of the metadata store.
C3_StoresHaveTheSameKeys == DictKeys(store) = DictKeys(session_metadata)

\* one of two sessions has been reset, the other is still in both stores
C3_Witness ==
    /\ last_call.op = "reset"
    /\ last_call.known
    /\ Cardinality(DictKeys(store)) = 1
    /\ \E s \in Sessions : Live(s) /\ Len(History(s)) = 2

\* C4: after N model-backed turns on a session since it was created, its
\* history holds 2N messages and its message_count is 2N.
C4_TwoPerTurn ==
    \A s \in DictKeys(store) :
        /\ Len(History(s)) = 2 * Len(turns[s])
        /\ DictHas(session_metadata, s)
        /\ Metadata(s).message_count = 2 * Len(turns[s])

C4_Witness ==
    \E s \in Sessions :
        /\ Live(s)
        /\ Len(turns[s]) = 2
        /\ Len(History(s)) = 4
        /\ Metadata(s).message_count = 4

\* the messages K completed turns leave, in order
RECURSIVE Exchanges(_)
Exchanges(ts) ==
    IF ts = <<>> THEN <<>>
    ELSE <<HumanMessage(Head(ts).input), AIMessage(Head(ts).reply)>>
            \o Exchanges(Tail(ts))

HistoryAtCall(s) ==
    IF DictHas(inflight[1].store0, s) THEN DictGet(inflight[1].store0, s) ELSE <<>>

\* C5: chat turns on one session do not interleave.  A turn that returns
\* leaves the history the session had when the turn was called, followed by
\* the turn's user message and directly by its reply, and a count two larger;
\* after K turns the history is exactly the K exchanges in order, 2K messages.
C5_TurnsDoNotInterleave ==
    /\ [](\A s \in DictKeys(store) :
            /\ History(s) = Exchanges(turns[s])
            /\ DictHas(session_metadata, s)
            /\ Metadata(s).message_count = Len(Exchanges(turns[s])))
    /\ [][\A reply \in Replies :
            chat_return(reply) =>
                LET s == inflight[1].sid
                    u == inflight[1].input
                IN /\ DictHas(store', s)
                   /\ DictGet(store', s)
                        = HistoryAtCall(s) \o <<HumanMessage(u), AIMessage(reply)>>
                   /\ DictHas(session_metadata', s)
                   /\ DictGet(session_metadata', s).message_count
                        = Len(HistoryAtCall(s)) + 2]_vars

\* two turns with different inputs have completed on one session
C5_Witness ==
    \E s \in Sessions :
        /\ ChatReturned
        /\ Live(s)
        /\ Len(turns[s]) = 2
        /\ turns[s][1].input # turns[s][2].input
        /\ Len(History(s)) = 4

ChatStep ==
    \/ \E s \in Sessions, u \in Inputs : chat_fallback(s, u)
    \/ \E s \in Sessions, u \in Inputs : chat_invoke(s, u)
    \/ \E reply \in Replies : chat_return(reply)
    \/ chat_raise

\* C6: once a session's title has been set, by a completed turn or by a
\* rename, no step of a chat turn changes it, whatever its value.
C6_ChatKeepsSetTitle ==
    [][\A s \in Sessions :
        (title_set[s] /\ DictHas(session_metadata, s) /\ ChatStep) =>
            /\ DictHas(session_metadata', s)
            /\ DictGet(session_metadata', s).title = Metadata(s).title]_vars

\* C7: a turn that returns on a session whose title is still "New Chat" sets
\* the title to the input when it has at most 50 characters, and to its first
\* 50 characters followed by "..." when it is longer.
C7_AutoTitle ==
    [][\A reply \in Replies :
        LET s == inflight[1].sid
            u == inflight[1].input
        IN (chat_return(reply) /\ DictHas(session_metadata, s)
                /\ Metadata(s).title = NewChat) =>
            /\ DictHas(session_metadata', s)
            /\ DictGet(session_metadata', s).title =
                  IF Len(u) <= TitleLimit THEN u
                  ELSE SubSeq(u, 1, TitleLimit) \o Ellipsis]_vars

\* the first turn of a session had a 51-character input
C7_Witness ==
    \E s \in Sessions :
        /\ ChatReturned
        /\ Live(s)
        /\ Len(turns[s]) = 1
        /\ turns[s][1].input = Over50
        /\ Metadata(s).title = Exactly50 \o Ellipsis

\* C8: get_history on an id that is not in the stores succeeds with an empty
\* message sequence and creates the session with default metadata, and
\* list_sessions then includes the id.
C8_GetHistoryCreates ==
    (last_call.op = "get_history" /\ ~last_call.known) =>
        LET s == last_call.sid
        IN /\ response.success
           /\ response.data = <<>>
           /\ DictHas(store, s)
           /\ History(s) = <<>>
           /\ DictHas(session_metadata, s)
           /\ Metadata(s).title = NewChat
           /\ Metadata(s).message_count = 0
           /\ ~Metadata(s).is_starred
           /\ ~Metadata(s).is_archived
           /\ Metadata(s).tags = <<>>
           /\ s \in Listed

\* get_history has created a second session beside one that has a turn
C8_Witness ==
    /\ last_call.op = "get_history"
    /\ ~last_call.known
    /\ last_call.after_delete = <<>>
    /\ response.data = <<>>
    /\ Cardinality(Listed) = 2
    /\ last_call.sid \in Listed

\* C9: delete_session on a known id removes it from both stores and from
\* list_sessions; a get_history on the id afterwards returns an empty history
\* and creates fresh default metadata, with nothing of the deleted session,
\* and a chat turn on it afterwards starts from an empty history.
C9_DeleteRemoves ==
    /\ (last_call.op = "delete" /\ last_call.known) =>
            /\ response.success
            /\ ~DictHas(store, last_call.sid)
            /\ ~DictHas(session_metadata, last_call.sid)
            /\ last_call.sid \notin Listed
    /\ (last_call.op = "get_history" /\ last_call.after_delete # <<>>) =>
            /\ response.success
            /\ response.data = <<>>
            /\ DictHas(store, last_call.sid)
            /\ History(last_call.sid) = <<>>
            /\ DictHas(session_metadata, last_call.sid)
            /\ Metadata(last_call.sid).title = NewChat
            /\ Metadata(last_call.sid).message_count = 0
    /\ (last_call.op = "chat" /\ last_call.after_delete # <<>>) =>
            /\ configured => DictHas(store, last_call.sid)
            /\ DictHas(store, last_call.sid) =>
                    /\ Len(turns[last_call.sid]) <= 1
                    /\ History(last_call.sid) = Exchanges(turns[last_call.sid])

\* get_history on an id that was deleted when it held messages
C9_Witness ==
    /\ last_call.op = "get_history"
    /\ last_call.after_delete = <<TRUE>>
    /\ response.data = <<>>
    /\ Live(last_call.sid)

\* C10: delete_session, export_session and rename_session on an id that is
\* in neither store return "Session not found" and leave both stores as
\* they are.
C10_UnknownIdNotFound ==
    [][\A s \in Sessions :
        (/\ ~DictHas(store, s)
         /\ ~DictHas(session_metadata, s)
         /\ \/ delete_session_endpoint(s)
            \/ \E format \in Formats : export_session(s, format)
            \/ \E title \in Titles : update_session_title(s, title)) =>
            /\ ~response'.success
            /\ response'.error = SessionNotFound
            /\ store' = store
            /\ session_metadata' = session_metadata]_vars

\* a rename of an unknown id was refused while another session exists
C10_Witness ==
    /\ last_call.op = "title"
    /\ ~last_call.known
    /\ ~response.success
    /\ response.error = SessionNotFound
    /\ ~DictHas(session_metadata, last_call.sid)
    /\ ~DictHas(store, last_call.sid)
    /\ store # <<>>

\* C11: reset_session always succeeds and leaves the id in neither store; on
\* an id that is in neither store it changes nothing.  The id can be used
\* again: the next get_history on it returns an empty history and finds the
\* default title and a count of zero, and the next chat turn on it builds on
\* an empty history, with none of the messages from before the reset.
C11_ResetRemovesAndIdIsReusable ==
    /\ [](/\ last_call.op = "reset" =>
                /\ response.success
                /\ ~DictHas(store, last_call.sid)
                /\ ~DictHas(session_metadata, last_call.sid)
          /\ (last_call.op = "get_history" /\ last_call.after_reset # <<>>) =>
                /\ response.success
                /\ response.data = <<>>
                /\ Live(last_call.sid)
                /\ History(last_call.sid) = <<>>
                /\ Metadata(last_call.sid).title = NewChat
                /\ Metadata(last_call.sid).message_count = 0
          /\ (last_call.op = "chat" /\ last_call.after_reset # <<>>) =>
                /\ configured => Live(last_call.sid)
                /\ (~Idle /\ DictHas(store, last_call.sid)) =>
                        /\ History(last_call.sid) = <<>>
                        /\ Metadata(last_call.sid).title = NewChat
                        /\ Metadata(last_call.sid).message_count = 0
                /\ (ChatReturned /\ DictHas(store, last_call.sid)) =>
                        /\ History(last_call.sid)
                              = <<HumanMessage(last_call.arg),
                                  AIMessage(response.data.message)>>
                        /\ Metadata(last_call.sid).message_count = 2)
    /\ [][\A s \in Sessions :
            (/\ ~DictHas(store, s)
             /\ ~DictHas(session_metadata, s)
             /\ last_call'.op = "reset"
             /\ reset_session_endpoint(s)) =>
                /\ response'.success
                /\ store' = store
                /\ session_metadata' = session_metadata]_vars

\* get_history on an id that was reset when it held messages
C11_Witness ==
    /\ last_call.op = "get_history"
    /\ last_call.after_reset = <<TRUE>>
    /\ response.data = <<>>
    /\ Live(last_call.sid)
    /\ Metadata(last_call.sid).title = NewChat

\* C12: list_sessions returns exactly one summary for every session in the
\* metadata store and no others, each summary showing that session's
\* metadata, ordered by updated_at non-increasing; a session that a chat
\* turn or a rename has just changed has the updated_at of the first entry.
C12_ListSessions ==
    /\ [](LET listing == ListSessions(session_metadata)
          IN /\ Len(listing) = Cardinality(DictKeys(session_metadata))
             /\ \A s \in DictKeys(session_metadata) :
                    Cardinality({i \in DOMAIN listing : listing[i].id = s}) = 1
             /\ \A i \in DOMAIN listing :
                    /\ listing[i].id \in DictKeys(session_metadata)
                    /\ listing[i].title = Metadata(listing[i].id).title
                    /\ listing[i].message_count = Metadata(listing[i].id).message_count
                    /\ listing[i].updated_at = Metadata(listing[i].id).updated_at
                    /\ listing[i].created_at = Metadata(listing[i].id).created_at
             /\ \A i \in 1..(Len(listing) - 1) :
                    listing[i].updated_at >= listing[i + 1].updated_at
             /\ last_call.op = "list" =>
                    /\ response.success
                    /\ response.data = listing)
    /\ [][\A s \in Sessions :
            (\/ /\ ~Idle
                /\ inflight[1].sid = s
                /\ \E reply \in Replies : chat_return(reply)
             \/ /\ DictHas(session_metadata, s)
                /\ last_call'.op = "title"
                /\ \E title \in Titles : update_session_title(s, title)) =>
                /\ DictHas(session_metadata', s)
                /\ ListSessions(session_metadata')[1].updated_at
                      = DictGet(session_metadata', s).updated_at
                /\ \A i \in DOMAIN ListSessions(session_metadata') :
                      ListSessions(session_metadata')[i].updated_at
                          <= DictGet(session_metadata', s).updated_at]_vars

\* the listing of two sessions puts the one created second first, because
\* it was changed later
C12_Witness ==
    /\ last_call.op = "list"
    /\ Len(session_metadata) = 2
    /\ Len(response.data) = 2
    /\ response.data[1].id = session_metadata[2].k
    /\ response.data[1].updated_at > response.data[2].updated_at

\* the positions of text at which sub occurs, letter case ignored
Positions(text, sub) ==
    {i \in 1..(Len(text) - Len(sub) + 1) :
        Lower(SubSeq(text, i, i + Len(sub) - 1)) = Lower(sub)}
\* the largest number of occurrences no two of which overlap
Disjoint(text, sub) ==
    LET fits(S) == \A a \in S, b \in S : a < b => b - a >= Len(sub)
        sizes == {Cardinality(S) : S \in {X \in SUBSET Positions(text, sub) : fits(X)}}
    IN CHOOSE n \in sizes : \A k \in sizes : k <= n
Occurs == [content \in Texts, query \in Queries |-> Positions(content, query) # {}]
Occurrences == [content \in Texts, query \in Queries |->
                   Cardinality(Positions(content, query))]
DisjointOccurrences == [content \in Texts, query \in Queries |->
                           Disjoint(content, query)]
\* the sessions a search looks at, and the messages in them that match
Searched == IF last_call.sid = None THEN DictKeys(store)
            ELSE {last_call.sid} \cap DictKeys(store)
Hits == {h \in Searched \X (1..(2 * (MaxSearchTurns + MaxTurns))) :
            /\ h[2] <= Len(History(h[1]))
            /\ Occurs[History(h[1])[h[2]].content, last_call.arg]}
HitOf(result) == <<result.session_id, result.message.id[2] + 1>>
Contents(s) == [i \in DOMAIN History(s) |-> History(s)[i].content]

\* C13 (as stated): the relevance score of every returned message is the
\* number of occurrences of the query in it.
C13_ScoreIsNumberOfOccurrences ==
    last_call.op = "search" =>
        \A k \in DOMAIN response.data :
            response.data[k].relevance_score
                = Occurrences[response.data[k].message.content, last_call.arg]

\* C13 (amended): search returns, from the named session or from all
\* sessions, messages whose content contains the query as a substring with
\* letter case ignored, each once, with a score equal to the number of
\* non-overlapping occurrences of the query in it; the results are ordered
\* by score non-increasing, there are min(20, number of matches) of them,
\* and no omitted match has a higher score than a returned one.  Messages
\* "foo bar foo", "baz" and query "foo" give one match, with score 2.
C13_Search ==
    last_call.op = "search" =>
        LET data == response.data
        IN /\ response.success
           /\ Len(data) = Min(SearchLimit, Cardinality(Hits))
           /\ \A k \in DOMAIN data :
                /\ HitOf(data[k]) \in Hits
                /\ data[k].message.content
                      = History(data[k].session_id)[HitOf(data[k])[2]].content
                /\ data[k].message.sender
                      = History(data[k].session_id)[HitOf(data[k])[2]].sender
                /\ data[k].relevance_score
                      = DisjointOccurrences[data[k].message.content, last_call.arg]
                /\ data[k].relevance_score >= 1
                /\ \A l \in DOMAIN data : HitOf(data[l]) = HitOf(data[k]) => l = k
                /\ \A h \in Hits \ {HitOf(data[l]) : l \in DOMAIN data} :
                      DisjointOccurrences[History(h[1])[h[2]].content, last_call.arg]
                          <= data[k].relevance_score
           /\ \A k \in 1..(Len(data) - 1) :
                data[k].relevance_score >= data[k + 1].relevance_score
           /\ (/\ last_call.arg = "foo"
               /\ last_call.sid \in DictKeys(store)
               /\ Contents(last_call.sid) = <<"foo bar foo", "baz">>) =>
                    /\ Len(data) = 1
                    /\ data[1].message.content = "foo bar foo"
                    /\ data[1].relevance_score = 2

\* a search over all sessions for "OO" found more than 20 messages, some
\* "foo bar foo" (two occurrences) and some "FOOO" (two occurrences that
\* overlap): 20 are returned, the first with score 2, the last with score 1
C13_Witness ==
    /\ last_call.op = "search"
    /\ last_call.arg = "OO"
    /\ last_call.sid = None
    /\ Cardinality(Hits) > SearchLimit
    /\ Len(response.data) = SearchLimit
    /\ response.data[1].message.content = "foo bar foo"
    /\ response.data[1].relevance_score = 2
    /\ response.data[SearchLimit].message.content = "FOOO"
    /\ response.data[SearchLimit].relevance_score = 1

\* the first position from i on at which sub occurs in text, 0 if none
RECURSIVE FindFrom(_, _, _)
FindFrom(text, sub, i) ==
    IF i + Len(sub) - 1 > Len(text) THEN 0
    ELSE IF SubSeq(text, i, i + Len(sub) - 1) = sub THEN i
    ELSE FindFrom(text, sub, i + 1)
SenderLabel(message) == IF message.sender = "user" THEN "You" ELSE "Afridi.ai"
\* from position i on, text has one line "<sender>: <content>" for each of
\* the messages, in their order
RECURSIVE HasLinesFrom(_, _, _)
HasLinesFrom(text, messages, i) ==
    IF messages = <<>> THEN TRUE
    ELSE LET line == "\n" \o SenderLabel(Head(messages)) \o ": "
                          \o Head(messages).content \o "\n"
             at == FindFrom(text, line, i)
         IN /\ at # 0
            /\ HasLinesFrom(text, Tail(messages), at + Len(line) - 1)

C15_FallbackNeverFails ==
    ~configured =>
        /\ Idle
        /\ \A s \in Sessions, u \in Inputs : ENABLED chat_fallback(s, u)
        /\ ~ENABLED chat_raise
        /\ last_call.op = "chat" =>
                /\ response.success
                /\ response.error = None
                /\ response.data.session_id = last_call.sid
                /\ response.data.model = DevelopmentMode
                /\ Contains(response.data.message, "'" \o last_call.arg \o "'")
                /\ Contains(response.data.message, "development mode")

\* the fallback answered a turn with the 51-character input on an id that
\* is in no store
C15_Witness ==
    /\ ~configured
    /\ last_call.op = "chat"
    /\ last_call.arg = Over50
    /\ ~last_call.known
    /\ response.success
    /\ response.data.model = DevelopmentMode
    /\ Contains(response.data.message, Over50)

\* C16 (as stated): while a chat turn on one session waits for the model
\* call, a request on any other session can start.
C16_OtherSessionsNotBlocked ==
    ~Idle =>
        \A s \in Sessions \ {inflight[1].sid} :
            /\ ENABLED get_history_endpoint(s)
            /\ \E format \in Formats : ENABLED export_session(s, format)

IsPrefix(old, new) ==
    /\ Len(old) <= Len(new)
    /\ SubSeq(new, 1, Len(old)) = old
Destroys(s) == last_call'.op \in {"reset", "delete"} /\ last_call'.sid = s

\* C17: a session is destroyed only by a reset or a delete of it, and its
\* history only grows at the end: over every step that is not a reset or a
\* delete of session s (a chat turn, get_history, rename, list, search,
\* export, on s or on another id, or a reset or delete of another id), a
\* session s that is in both stores stays in both and its history before
\* the step is a prefix of its history after it.
C17_DestroyedOnlyByResetOrDelete ==
    [][\A s \in Sessions :
        (Live(s) /\ ~Destroys(s)) =>
            /\ DictHas(store', s)
            /\ DictHas(session_metadata', s)
            /\ IsPrefix(History(s), DictGet(store', s))]_vars

\* the other id was deleted while this session kept its two messages
C17_Witness ==
    \E s \in Sessions :
        /\ last_call.op = "delete"
        /\ last_call.known
        /\ last_call.sid # s
        /\ Live(s)
        /\ Len(History(s)) = 2

\* C18: list_sessions, search (over all sessions, over a named session, over
\* an id that is in no store) and export_session leave the history store and
\* the metadata store exactly as they were: every step that ends with one of
\* them as the last request changes neither store.
C18_QueriesChangeNothing ==
    [][last_call'.op \in {"list", "search", "export"} =>
        /\ store' = store
        /\ session_metadata' = session_metadata]_vars

\* a search named an id that is in no store, while another session with
\* messages exists; the id is still in no store
C18_Witness ==
    /\ last_call.op = "search"
    /\ last_call.sid \in Sessions
    /\ ~last_call.known
    /\ ~DictHas(store, last_call.sid)
    /\ ~DictHas(session_metadata, last_call.sid)
    /\ response.data = <<>>
    /\ \E s \in Sessions : Live(s) /\ Len(History(s)) = 2

\* C19: when the model collaborator is not configured, a chat turn changes
\* neither store: no session is created for an unknown id, no message is
\* appended, and no metadata field changes.
C19_FallbackChangesNothing ==
    /\ []((~configured /\ last_call.op = "chat") =>
            /\ response.success
            /\ last_call.known <=> DictHas(store, last_call.sid)
            /\ last_call.known <=> DictHas(session_metadata, last_call.sid)
            /\ \A s \in DictKeys(store) : History(s) = <<>>)
    /\ [][(~configured /\ last_call'.op = "chat") =>
            /\ store' = store
            /\ session_metadata' = session_metadata]_vars

\* the fallback answered a turn on an id that is in no store while the
\* other id is in both; the id of the turn is still in neither
C19_Witness ==
    /\ ~configured
    /\ last_call.op = "chat"
    /\ ~last_call.known
    /\ response.success
    /\ ~DictHas(store, last_call.sid)
    /\ ~DictHas(session_metadata, last_call.sid)
    /\ Cardinality(DictKeys(store)) = 1

\* C20: in every reachable state every history has even length and
\* alternates user message, assistant message, starting with a user
\* message, so every user message is directly followed by a reply.
C20_HistoriesAlternate ==
    \A s \in DictKeys(store) :
        /\ Len(History(s)) % 2 = 0
        /\ \A i \in DOMAIN History(s) :
                History(s)[i].sender = IF i % 2 = 1 THEN "user" ELSE "assistant"

\* a model call is pending on a session that holds one exchange
C20_Witness ==
    /\ ~Idle
    /\ DictHas(store, inflight[1].sid)
    /\ Len(History(inflight[1].sid)) = 2
    /\ History(inflight[1].sid)[1].sender = "user"
    /\ History(inflight[1].sid)[2].sender = "assistant"

\* the session id a step works on: that of the pending chat turn when it
\* returns or raises, otherwise that of the request taken up
ActedOn == IF ~Idle THEN inflight[1].sid ELSE last_call'.sid
SessionOps == {"chat", "get_history", "title", "reset", "delete"}
Untouched(o) ==
    /\ DictHas(store', o) <=> DictHas(store, o)
    /\ DictHas(session_metadata', o) <=> DictHas(session_metadata, o)
    /\ DictHas(store, o) => DictGet(store', o) = DictGet(store, o)
    /\ DictHas(session_metadata, o) =>
            DictGet(session_metadata', o) = DictGet(session_metadata, o)

\* C21: session isolation.  A chat turn (its call, its return and its
\* failure), get_history, rename, reset and delete on session id s leave
\* every other session id as it was: in the stores exactly if it was
\* before, with the same history and the same metadata.
C21_SessionIsolation ==
    [][\A o \in Sessions :
        (last_call'.op \in SessionOps /\ o # ActedOn) => Untouched(o)]_vars

\* a chat turn on one id has failed while the other id holds one exchange
\* with its count of two
C21_Witness ==
    /\ Idle
    /\ last_call.op = "chat"
    /\ configured
    /\ ~response.success
    /\ \E o \in Sessions \ {last_call.sid} :
            /\ Live(o)
            /\ Len(History(o)) = 2
            /\ Metadata(o).message_count = 2
            /\ Metadata(o).title # NewChat

====
